---- MODULE Spec2Model ----
(***************************************************************************)
(* Energy Tracker: the shared leaderboard store (LeaderboardItemModel.data) *)
(* with its upload / update / delete handlers, the leaderboard query        *)
(* (LeaderboardController.getEntries, loadLeaderboard) and the statistics   *)
(* aggregation (StatisticsController.getAggregatedStats).                   *)
(*                                                                         *)
(* JavaScript values are modelled as follows.                               *)
(*  - A missing property (JS undefined) of a string field is the marker     *)
(*    `undefined`.                                                          *)
(*  - A numeric field (hours, quantity, the page parameter) is a tagged     *)
(*    value [t, v]: t = "number" (the number v), "numstr" (the decimal text *)
(*    of v), "text" (text that is no number) or "undefined".                *)
(*  - A plain object used as a dictionary is the sequence of its own        *)
(*    properties in insertion order, each [name, weight, isNumber];         *)
(*    isNumber = FALSE says the property holds a string (see AddTo).        *)
(*  - Arithmetic is exact.  A source weight, regionTotal * pct / 100, is    *)
(*    kept in hundredths of a watt-hour (regionTotal * pct); a sort score   *)
(*    pct / 100 is kept as pct.                                             *)
(***************************************************************************)
EXTENDS Integers, Sequences, FiniteSets, TLC

VARIABLES data, available, last,
          locations, editPage, listPage, leaderboardPage

\* The state of the browser: localStorage "locations" and the three pages.
browser == <<locations, editPage, listPage, leaderboardPage>>

vars == <<data, available, last, browser>>

undefined == "undefined"

(***************************************************************************)
(* Bounds of the model.                                                    *)
(***************************************************************************)
\* Spec: the store never holds more than MaxEntries entries.
MaxEntries == 2

\* SpecPaged: the store never holds more than MaxPaged entries.
MaxPaged == 33

(***************************************************************************)
(* Reference data.                                                         *)
(***************************************************************************)
PAGE_SIZE == 16

types ==
    << [name |-> "Refrigerator", watts |-> 100],
       [name |-> "Air Conditioner", watts |-> 350],
       [name |-> "Heater", watts |-> 1500],
       [name |-> "Washing Machine", watts |-> 500],
       [name |-> "Dryer", watts |-> 3000],
       [name |-> "Dishwasher", watts |-> 1800],
       [name |-> "Oven", watts |-> 2150],
       [name |-> "Microwave", watts |-> 1000],
       [name |-> "Toaster", watts |-> 800],
       [name |-> "Coffee Maker", watts |-> 900],
       [name |-> "Television", watts |-> 150],
       [name |-> "Computer", watts |-> 200],
       [name |-> "Lamp", watts |-> 60] >>

Mix(w, s, g, c) ==
    << [name |-> "wind", pct |-> w], [name |-> "solar", pct |-> s],
       [name |-> "gas", pct |-> g], [name |-> "coal", pct |-> c] >>

RegionPowerData ==
    << [name |-> "NSW", powerSources |-> Mix(12, 15, 25, 48)],
       [name |-> "VIC", powerSources |-> Mix(20, 22, 30, 28)],
       [name |-> "QLD", powerSources |-> Mix(10, 20, 25, 45)],
       [name |-> "WA", powerSources |-> Mix(15, 20, 35, 30)],
       [name |-> "SA", powerSources |-> Mix(40, 30, 20, 10)],
       [name |-> "TAS", powerSources |-> Mix(60, 20, 10, 10)],
       [name |-> "ACT", powerSources |-> Mix(30, 40, 20, 10)],
       [name |-> "NT", powerSources |-> Mix(20, 30, 40, 10)] >>

\* The properties every plain object inherits from Object.prototype: reading
\* one of these names from {} yields a function (or the prototype), not
\* undefined.
ObjectPrototypeKeys ==
    {"constructor", "toString", "valueOf", "hasOwnProperty", "__proto__"}

(***************************************************************************)
(* Conversions.                                                            *)
(***************************************************************************)
\* Number(x): [nan, v].
ToNumber(x) ==
    IF x.t \in {"number", "numstr"}
    THEN [nan |-> FALSE, v |-> x.v]
    ELSE [nan |-> TRUE, v |-> 0]

\* Number(x) || 0
NumberOrZero(x) ==
    LET n == ToNumber(x) IN IF n.nan \/ n.v = 0 THEN 0 ELSE n.v

\* parseInt(x) || 1
ParsePage(x) ==
    LET n == ToNumber(x) IN IF n.nan \/ n.v = 0 THEN 1 ELSE n.v

\* sourceName.charAt(0).toUpperCase() + sourceName.slice(1)
Capitalize(s) ==
    CASE s = "wind" -> "Wind"
      [] s = "solar" -> "Solar"
      [] s = "gas" -> "Gas"
      [] s = "coal" -> "Coal"
      [] s = "hydro" -> "Hydro"
      [] OTHER -> s

\* powerSourceFilter.toLowerCase()
ToLowerCase(s) ==
    CASE s = "Wind" -> "wind"
      [] s = "Solar" -> "solar"
      [] s = "Gas" -> "gas"
      [] s = "Coal" -> "coal"
      [] s = "Hydro" -> "hydro"
      [] s = "SOLAR" -> "solar"
      [] s = "Nuclear" -> "nuclear"
      [] OTHER -> s

Min(a, b) == IF a < b THEN a ELSE b

Max(a, b) == IF a > b THEN a ELSE b

\* Math.ceil(n / d) for n >= 0, d > 0
Ceil(n, d) == (n + d - 1) \div d

(***************************************************************************)
(* Power calculator (UtilsController).  The controllers import it from     *)
(* models/UtilsController.mjs and call it synchronously; the functions are *)
(* those of public/scripts/UtilsController.mjs, which is the copy modelled *)
(* here: hours and quantity go through Number(x) || 0 and are not clamped. *)
(***************************************************************************)
RECURSIVE FindWatts(_, _)
\* applianceTypes.find(type => type.name === name): its watts, or -1 for
\* "no such type".
FindWatts(name, i) ==
    IF i > Len(types) THEN -1
    ELSE IF types[i].name = name THEN types[i].watts
    ELSE FindWatts(name, i + 1)

getAppliancePower(appliance) ==
    IF appliance.isNull \/ appliance.type = undefined THEN 0
    ELSE LET watts == FindWatts(appliance.type, 1) IN
         IF watts < 0 THEN 0
         ELSE watts * NumberOrZero(appliance.hours)
                    * NumberOrZero(appliance.quantity)

RECURSIVE SumPower(_, _)
SumPower(items, i) ==
    IF i > Len(items) THEN 0
    ELSE (IF items[i].isNull THEN 0 ELSE getAppliancePower(items[i]))
         + SumPower(items, i + 1)

\* appliances is [kind, items]: kind = "array", or "undefined" / "string"
\* for a missing field and for a field that is no list.
getLocationPower(appliances) ==
    IF appliances.kind # "array" THEN 0 ELSE SumPower(appliances.items, 1)

(***************************************************************************)
(* Plain objects used as dictionaries (totalRegionPower, totalAppliances,  *)
(* totalPowerSources).                                                     *)
(***************************************************************************)
RECURSIVE OwnIndex(_, _, _)
\* The position of own property `name`, 0 when the object has none.
OwnIndex(obj, name, i) ==
    IF i > Len(obj) THEN 0
    ELSE IF obj[i].name = name THEN i
    ELSE OwnIndex(obj, name, i + 1)

\* obj[name] read as a condition: an own number is truthy when it is not 0,
\* an own string is truthy, an inherited Object.prototype member is truthy,
\* anything else is undefined.
Truthy(obj, name) ==
    LET i == OwnIndex(obj, name, 1) IN
    IF i > 0 THEN (~obj[i].isNumber) \/ obj[i].weight # 0
    ELSE name \in ObjectPrototypeKeys

\* obj[name] || 0 for a name that is read as a number.
ValueOrZero(obj, name) ==
    LET i == OwnIndex(obj, name, 1) IN
    IF i > 0 /\ obj[i].isNumber THEN obj[i].weight ELSE 0

\* obj[name] = 0
SetZero(obj, name) ==
    LET i == OwnIndex(obj, name, 1) IN
    IF i > 0 THEN [obj EXCEPT ![i].weight = 0, ![i].isNumber = TRUE]
    ELSE Append(obj, [name |-> name, weight |-> 0, isNumber |-> TRUE])

\* obj[name] += amount.  An own number grows by amount.  An own string, or
\* an inherited member (a function), is concatenated with the amount's
\* text: the property then holds a string (weight is not meaningful for
\* it).  The assignment to __proto__ goes to its setter, which drops a
\* string: no own property appears.
PlusAssign(obj, name, amount) ==
    LET i == OwnIndex(obj, name, 1) IN
    IF i > 0
    THEN IF obj[i].isNumber THEN [obj EXCEPT ![i].weight = @ + amount]
         ELSE obj
    ELSE IF name = "__proto__" THEN obj
    ELSE Append(obj, [name |-> name, weight |-> 0, isNumber |-> FALSE])

\* if (!obj[name]) { obj[name] = 0; }  obj[name] += amount;
AddTo(obj, name, amount) ==
    PlusAssign(IF Truthy(obj, name) THEN obj ELSE SetZero(obj, name),
               name, amount)

(***************************************************************************)
(* StatisticsController.getAggregatedStats                                 *)
(***************************************************************************)
\* entry.region || "Unknown"
RegionNameOf(entry) ==
    IF entry.region = undefined \/ entry.region = "" THEN "Unknown"
    ELSE entry.region

\* app.type?.name || "Unknown"
AppTypeNameOf(app) ==
    IF app.type = undefined \/ app.type = "" THEN "Unknown" ELSE app.type

RECURSIVE AddAppliances(_, _, _)
\* (entry.appliances || []).forEach(app => totalAppliances[name] += power)
AddAppliances(totalAppliances, items, i) ==
    IF i > Len(items) THEN totalAppliances
    ELSE AddAppliances(
             AddTo(totalAppliances, AppTypeNameOf(items[i]),
                   getAppliancePower(items[i])),
             items, i + 1)

\* AccumulateEntry with the grand total fed only by entries in a table
\* region.
AccumulateEntry_knownRegionsOnly(acc, entry) ==
    LET locationPower == getLocationPower(entry.appliances) IN
    [grand |-> acc.grand
               + (IF \E i \in 1..Len(RegionPowerData) :
                         RegionPowerData[i].name = entry.region
                  THEN locationPower ELSE 0),
     regions |-> AddTo(acc.regions, RegionNameOf(entry), locationPower),
     apps |-> IF entry.appliances.kind = "array"
              THEN AddAppliances(acc.apps, entry.appliances.items, 1)
              ELSE acc.apps]

\* One turn of entries.forEach: acc is [grand, regions, apps].
AccumulateEntry(acc, entry) ==
    LET locationPower == getLocationPower(entry.appliances) IN
    [grand |-> acc.grand + locationPower,
     regions |-> AddTo(acc.regions, RegionNameOf(entry), locationPower),
     apps |-> IF entry.appliances.kind = "array"
              THEN AddAppliances(acc.apps, entry.appliances.items, 1)
              ELSE acc.apps]

RECURSIVE AccumulateAll(_, _, _)
AccumulateAll(acc, entries, i) ==
    IF i > Len(entries) THEN acc
    ELSE AccumulateAll(AccumulateEntry(acc, entries[i]), entries, i + 1)

RECURSIVE AddSources(_, _, _, _)
RECURSIVE AddSources_assign(_, _, _, _)
\* AddSources with = in place of +=: a later region overwrites the weight.
AddSources_assign(totalPowerSources, powerSources, regionTotal, i) ==
    IF i > Len(powerSources) THEN totalPowerSources
    ELSE AddSources_assign(
             AddTo(SetZero(totalPowerSources,
                           Capitalize(powerSources[i].name)),
                   Capitalize(powerSources[i].name),
                   regionTotal * powerSources[i].pct),
             powerSources, regionTotal, i + 1)

\* Object.entries(regionPower.powerSources).forEach(...): the region's total
\* times each percentage, under the capitalized source name.
AddSources(totalPowerSources, powerSources, regionTotal, i) ==
    IF i > Len(powerSources) THEN totalPowerSources
    ELSE AddSources(
             AddTo(totalPowerSources, Capitalize(powerSources[i].name),
                   regionTotal * powerSources[i].pct),
             powerSources, regionTotal, i + 1)

RECURSIVE Decompose(_, _, _)
\* regionPowerData.forEach: only table regions with a positive total.
Decompose(totalPowerSources, totalRegionPower, i) ==
    IF i > Len(RegionPowerData) THEN totalPowerSources
    ELSE LET regionPower == RegionPowerData[i]
             regionTotal == ValueOrZero(totalRegionPower, regionPower.name)
         IN  Decompose(
                 IF regionTotal > 0
                 THEN AddSources(totalPowerSources, regionPower.powerSources,
                                 regionTotal, 1)
                 ELSE totalPowerSources,
                 totalRegionPower, i + 1)

\* The forEach callbacks read app.type of every item of a list and call
\* forEach on any truthy appliances value: a null item or a value that is
\* no list raises a TypeError, which the handler does not catch.
StatsThrows(entries) ==
    \E i \in 1..Len(entries) :
        \/ entries[i].appliances.kind = "string"
        \/ /\ entries[i].appliances.kind = "array"
           /\ \E j \in 1..Len(entries[i].appliances.items) :
                  entries[i].appliances.items[j].isNull

NoStats ==
    [totalEnergy |-> 0, stateData |-> <<>>, sourceData |-> <<>>,
     applianceData |-> <<>>]

\* The response body of GET /statistics/data for store content `entries`;
\* status 500 with no statistics when the handler throws.
getAggregatedStats(entries) ==
    IF Len(entries) = 0 THEN [status |-> 200, stats |-> NoStats]
    ELSE IF StatsThrows(entries) THEN [status |-> 500, stats |-> NoStats]
    ELSE LET acc == AccumulateAll(
                        [grand |-> 0, regions |-> <<>>, apps |-> <<>>],
                        entries, 1)
         IN  [status |-> 200,
              stats |-> [totalEnergy |-> acc.grand,
                         stateData |-> acc.regions,
                         sourceData |-> Decompose(<<>>, acc.regions, 1),
                         applianceData |-> acc.apps]]

(***************************************************************************)
(* LeaderboardController: the query.                                       *)
(***************************************************************************)
RECURSIVE FindRegion(_, _)
\* RegionPowerModel.data.find(r => r.name === entry.region)?.powerSources
\* || {}
FindRegion(region, i) ==
    IF i > Len(RegionPowerData) THEN <<>>
    ELSE IF RegionPowerData[i].name = region
    THEN RegionPowerData[i].powerSources
    ELSE FindRegion(region, i + 1)

RECURSIVE SourcePct(_, _, _)
\* sources[key] || 0 for a key the mix may hold.
SourcePct(sources, key, i) ==
    IF i > Len(sources) THEN 0
    ELSE IF sources[i].name = key THEN sources[i].pct
    ELSE SourcePct(sources, key, i + 1)

\* {sortValue, totalPower} of an entry.  sortValue is the percentage, not
\* the fraction, for GREEN and for a named source.  sortNaN: the score of a
\* filter that names an inherited member of the mix object is not a number.
calculateSortValues(entry, powerSourceFilter) ==
    LET totalPower == getLocationPower(entry.appliances)
        sources == FindRegion(entry.region, 1)
        key == ToLowerCase(powerSourceFilter)
    IN  IF powerSourceFilter = "GREEN"
        THEN [sortValue |-> SourcePct(sources, "solar", 1)
                            + SourcePct(sources, "wind", 1)
                            + SourcePct(sources, "hydro", 1),
              sortNaN |-> FALSE, totalPower |-> totalPower]
        ELSE IF powerSourceFilter # "ANY"
        THEN [sortValue |-> SourcePct(sources, key, 1),
              sortNaN |-> key \in ObjectPrototypeKeys,
              totalPower |-> totalPower]
        ELSE [sortValue |-> totalPower, sortNaN |-> FALSE,
              totalPower |-> totalPower]

\* compareEntries with the direction of the sort ignored: always HIGH.
compareEntries_alwaysHigh(a, b, sortOrder, powerSourceFilter) ==
    IF a.sortNaN \/ b.sortNaN THEN 0
    ELSE IF b.sortValue - a.sortValue # 0 THEN b.sortValue - a.sortValue
    ELSE IF powerSourceFilter # "ANY" THEN b.totalPower - a.totalPower
    ELSE 0

\* compareEntries without the secondary key.
compareEntries_noTieBreak(a, b, sortOrder, powerSourceFilter) ==
    IF a.sortNaN \/ b.sortNaN THEN 0
    ELSE IF sortOrder = "HIGH" THEN b.sortValue - a.sortValue
    ELSE a.sortValue - b.sortValue

\* The comparator: negative when a sorts before b.  A difference that is
\* not a number is returned as it is and sort() reads it as 0.
compareEntries(a, b, sortOrder, powerSourceFilter) ==
    LET sortValueDiff == IF sortOrder = "HIGH"
                         THEN b.sortValue - a.sortValue
                         ELSE a.sortValue - b.sortValue
    IN  IF a.sortNaN \/ b.sortNaN THEN 0
        ELSE IF sortValueDiff # 0 THEN sortValueDiff
        ELSE IF powerSourceFilter # "ANY"
        THEN IF sortOrder = "HIGH"
             THEN b.totalPower - a.totalPower
             ELSE a.totalPower - b.totalPower
        ELSE 0

RECURSIVE InsertAt(_, _, _, _, _)
\* x placed behind every element of the sorted list that does not sort
\* after it.
InsertAt(sorted, x, i, sortOrder, powerSourceFilter) ==
    IF i > Len(sorted) THEN Append(sorted, x)
    ELSE IF compareEntries(sorted[i], x, sortOrder, powerSourceFilter) > 0
    THEN SubSeq(sorted, 1, i - 1) \o <<x>> \o SubSeq(sorted, i, Len(sorted))
    ELSE InsertAt(sorted, x, i + 1, sortOrder, powerSourceFilter)

RECURSIVE SortFrom(_, _, _, _, _)
\* Array.prototype.sort with the comparator: a stable sort.
SortFrom(sorted, list, i, sortOrder, powerSourceFilter) ==
    IF i > Len(list) THEN sorted
    ELSE SortFrom(InsertAt(sorted, list[i], 1, sortOrder, powerSourceFilter),
                  list, i + 1, sortOrder, powerSourceFilter)

\* { ...entry, sortValue, totalPower }
WithSortValues(entry, powerSourceFilter) ==
    LET sv == calculateSortValues(entry, powerSourceFilter) IN
    [address |-> entry.address, region |-> entry.region,
     appliances |-> entry.appliances, publicId |-> entry.publicId,
     privateId |-> entry.privateId, sortValue |-> sv.sortValue,
     sortNaN |-> sv.sortNaN, totalPower |-> sv.totalPower]

\* value || fallback for a query parameter
OrDefault(value, fallback) ==
    IF value = undefined \/ value = "" THEN fallback ELSE value

\* entry.appliances.some(app => app?.type?.name === appTypeFilter)
HasAppliance(entry, appTypeFilter) ==
    /\ entry.appliances.kind = "array"
    /\ \E j \in 1..Len(entry.appliances.items) :
           /\ ~entry.appliances.items[j].isNull
           /\ entry.appliances.items[j].type = appTypeFilter

\* PassesFilter with the two conditions joined by "or".
PassesFilter_either(entry, regionFilter, appTypeFilter) ==
    \/ regionFilter = "ALL" \/ entry.region = regionFilter
    \/ appTypeFilter = "ANY" \/ HasAppliance(entry, appTypeFilter)

\* The callback of LeaderboardItemModel.data.filter
PassesFilter(entry, regionFilter, appTypeFilter) ==
    /\ regionFilter = "ALL" \/ entry.region = regionFilter
    /\ appTypeFilter = "ANY" \/ HasAppliance(entry, appTypeFilter)

RECURSIVE FilterFrom(_, _, _, _)
FilterFrom(list, i, regionFilter, appTypeFilter) ==
    IF i > Len(list) THEN <<>>
    ELSE (IF PassesFilter(list[i], regionFilter, appTypeFilter)
          THEN <<list[i]>> ELSE <<>>)
         \o FilterFrom(list, i + 1, regionFilter, appTypeFilter)

\* Math.ceil(totalEntries / PAGE_SIZE) || 1
TotalPagesOf(totalEntries) ==
    LET n == Ceil(totalEntries, PAGE_SIZE) IN IF n = 0 THEN 1 ELSE n

\* Math.max(1, Math.min(page, totalPages))
SafePage(page, totalPages) == Max(1, Min(page, totalPages))

\* slice with the end index included.
Slice_endIncluded(list, startIndex, endIndex) ==
    SubSeq(list, startIndex + 1, Min(endIndex + 1, Len(list)))

\* list.slice(startIndex, endIndex), 0-based, end excluded
Slice(list, startIndex, endIndex) ==
    SubSeq(list, startIndex + 1, Min(endIndex, Len(list)))

\* Sanitize that copies privateId as well.
Sanitize_withPrivateId(entry) ==
    [address |-> entry.address, region |-> entry.region,
     appliances |->
         [kind |-> "array",
          items |-> [j \in 1..Len(entry.appliances.items) |->
                        [isNull |-> FALSE,
                         type |-> entry.appliances.items[j].type,
                         hours |-> entry.appliances.items[j].hours,
                         quantity |-> entry.appliances.items[j].quantity]]],
     publicId |-> entry.publicId, privateId |-> entry.privateId]

\* The projection of one page entry: privateId, sortValue and totalPower
\* are not copied.
Sanitize(entry) ==
    [address |-> entry.address, region |-> entry.region,
     appliances |->
         [kind |-> "array",
          items |-> [j \in 1..Len(entry.appliances.items) |->
                        [isNull |-> FALSE,
                         type |-> entry.appliances.items[j].type,
                         hours |-> entry.appliances.items[j].hours,
                         quantity |-> entry.appliances.items[j].quantity]]],
     publicId |-> entry.publicId]

\* entry.appliances.map(app => ({type: app.type, ...})) raises a TypeError
\* for an entry without an appliances list and for a null item.
SanitizeThrows(entry) ==
    \/ entry.appliances.kind # "array"
    \/ \E j \in 1..Len(entry.appliances.items) :
           entry.appliances.items[j].isNull

NoBoard ==
    [entries |-> <<>>, locations |-> <<>>, currentPage |-> 0,
     totalPages |-> 0, totalEntries |-> 0]

\* The sorted list getEntries slices its page from.
SortedEntries(entries, query) ==
    LET powerSourceFilter == OrDefault(query.powerSource, "GREEN")
        filteredEntries == FilterFrom(entries, 1,
                                      OrDefault(query.region, "ALL"),
                                      OrDefault(query.appType, "ANY"))
        entriesWithSortValue ==
            [i \in 1..Len(filteredEntries) |->
                WithSortValues(filteredEntries[i], powerSourceFilter)]
    IN  SortFrom(<<>>, entriesWithSortValue, 1,
                 OrDefault(query.sortOrder, "HIGH"), powerSourceFilter)

\* The page of getEntries: pagination of the sorted list and the projection
\* of the page; status 500 when the projection throws.
EntriesPage(sorted, pageParam) ==
    LET totalEntries == Len(sorted)
        totalPages == TotalPagesOf(totalEntries)
        safePage == SafePage(ParsePage(pageParam), totalPages)
        startIndex == (safePage - 1) * PAGE_SIZE
        entriesForPage == Slice(sorted, startIndex, startIndex + PAGE_SIZE)
    IN  IF \E i \in 1..Len(entriesForPage) : SanitizeThrows(entriesForPage[i])
        THEN [status |-> 500, board |-> NoBoard]
        ELSE [status |-> 200,
              board |-> [entries |-> [i \in 1..Len(entriesForPage) |->
                                         Sanitize(entriesForPage[i])],
                         locations |-> <<>>,
                         currentPage |-> safePage,
                         totalPages |-> totalPages,
                         totalEntries |-> totalEntries]]

\* GET /leaderboard/entries: [status, board].
getEntries(entries, query) ==
    EntriesPage(SortedEntries(entries, query), query.page)

\* The page loadLeaderboard hands to leaderboard.ejs.
LocationsPage(sorted, page) ==
    LET totalEntries == Len(sorted)
        totalPages == Ceil(totalEntries, PAGE_SIZE)
        safePage == Max(1, Min(page, IF totalPages = 0 THEN 1 ELSE totalPages))
        startIndex == (safePage - 1) * PAGE_SIZE
    IN  [status |-> 200,
         board |-> [entries |-> <<>>,
                    locations |-> Slice(sorted, startIndex,
                                        startIndex + PAGE_SIZE),
                    currentPage |-> safePage,
                    totalPages |-> totalPages,
                    totalEntries |-> totalEntries]]

\* GET /leaderboard: what the handler hands to leaderboard.ejs.
loadLeaderboard(entries, pageParam) ==
    LocationsPage(SortFrom(<<>>,
                           [i \in 1..Len(entries) |->
                               WithSortValues(entries[i], "GREEN")],
                           1, "HIGH", "GREEN"),
                  ParsePage(pageParam))

(***************************************************************************)
(* The store: ServerDataModel / LeaderboardItemModel.                      *)
(***************************************************************************)
\* ServerDataModel.init: Object.assign(Object.create(prototype), entry).
\* No constructor runs: the stored entry has the fields of the body and no
\* others.
init(entry) == entry

\* ServerDataModel.insert
insert(store, entryData) == Append(store, init(entryData))

RECURSIVE FindIndexByPrivateId(_, _, _)
\* data.findIndex(location => location.privateId === privateId), 0 for -1
FindIndexByPrivateId(store, privateId, i) ==
    IF i > Len(store) THEN 0
    ELSE IF store[i].privateId = privateId THEN i
    ELSE FindIndexByPrivateId(store, privateId, i + 1)

\* updateLocation that stores the entry at the end when none matches.
updateLocation_upsert(store, newLocationData) ==
    LET index == FindIndexByPrivateId(store, init(newLocationData).privateId, 1)
    IN  IF index # 0
        THEN [updated |-> TRUE,
              store |-> [store EXCEPT ![index] = init(newLocationData)]]
        ELSE [updated |-> FALSE, store |-> Append(store, init(newLocationData))]

\* LeaderboardItemModel.updateLocation with ServerDataModel.update:
\* [updated, store]
updateLocation(store, newLocationData) ==
    LET index == FindIndexByPrivateId(store, init(newLocationData).privateId, 1)
    IN  IF index # 0
        THEN [updated |-> TRUE,
              store |-> [store EXCEPT ![index] = init(newLocationData)]]
        ELSE [updated |-> FALSE, store |-> store]

RECURSIVE RemoveByPrivateId_orPublicId(_, _, _)
\* RemoveByPrivateId that compares the id with publicId as well.
RemoveByPrivateId_orPublicId(store, id, i) ==
    IF i > Len(store) THEN <<>>
    ELSE (IF store[i].privateId = id \/ store[i].publicId = id
          THEN <<>> ELSE <<store[i]>>)
         \o RemoveByPrivateId_orPublicId(store, id, i + 1)

RECURSIVE RemoveByPrivateId(_, _, _)
\* data.filter(entry => !(entry.privateId == id))
RemoveByPrivateId(store, id, i) ==
    IF i > Len(store) THEN <<>>
    ELSE (IF store[i].privateId = id THEN <<>> ELSE <<store[i]>>)
         \o RemoveByPrivateId(store, id, i + 1)

(***************************************************************************)
(* Request bodies and parameters.                                          *)
(***************************************************************************)
Num(k) == [t |-> "number", v |-> k]

NumStr(k) == [t |-> "numstr", v |-> k]

Text == [t |-> "text", v |-> 0]

Undef == [t |-> "undefined", v |-> 0]

App(type, hours, quantity) ==
    [isNull |-> FALSE, type |-> type, hours |-> hours, quantity |-> quantity]

NullApp ==
    [isNull |-> TRUE, type |-> undefined, hours |-> Undef, quantity |-> Undef]

List(items) == [kind |-> "array", items |-> items]

NoList == [kind |-> "undefined", items |-> <<>>]

NotAList == [kind |-> "string", items |-> <<>>]

Entry(address, region, appliances, publicId, privateId) ==
    [address |-> address, region |-> region, appliances |-> appliances,
     publicId |-> publicId, privateId |-> privateId]

\* The bodies a client may send to POST / PUT /leaderboard/upload: the
\* server accepts any JSON object.
Bodies ==
    { Entry("1 A St", "NSW", List(<<App("Heater", Num(2), Num(1))>>),
            "p1", "k1"),
      Entry("2 B St", "TAS",
            List(<<App("Lamp", Num(5), Num(2)), App("Heater", Num(1), Num(1))>>),
            "p2", "k2"),
      Entry("3 C St", "XX", List(<<App("Lamp", Num(10), Num(1))>>),
            "p3", "k1"),
      Entry(undefined, undefined, NoList, undefined, undefined),
      Entry("5 E St", "constructor", List(<<App("Heater", Num(1), Num(1))>>),
            "p5", "k5"),
      Entry("6 F St", "NSW", List(<<App("Heater", Num(-1), Num(1))>>),
            "p6", "k6"),
      Entry("7 G St", "VIC",
            List(<<NullApp, App("Kettle", Num(1), Num(1)),
                   App(undefined, Num(1), Num(1)),
                   App("Lamp", Text, Num(1))>>),
            "p7", "k7"),
      Entry("8 H St", "NSW", NotAList, "p8", "k8"),
      Entry("9 I St", "NSW", List(<<App("Computer", NumStr(3), Num(2))>>),
            "p9", "k9") }

\* The ids a client may send to DELETE /leaderboard/delete.
DeleteIds == {undefined, "k1", "k2", "k7", "p1"}

\* SpecPaged: well-formed bodies uploaded in rotation, so that the number
\* of store contents stays linear in MaxPaged; the n-th stored entry has
\* publicId n.
PagedKinds == <<"a1", "a2", "a3", "a4", "a5">>

PagedBody(kind, n) ==
    LET id == ToString(n)
        key == "k" \o ToString(n)
    IN  CASE kind = "a1" ->
                 Entry(kind, "NSW", List(<<App("Heater", Num(2), Num(1))>>),
                       id, key)
          [] kind = "a2" ->
                 Entry(kind, "TAS", List(<<App("Lamp", Num(5), Num(2))>>),
                       id, key)
          [] kind = "a3" ->
                 Entry(kind, "NSW", List(<<App("Lamp", Num(10), Num(1))>>),
                       id, key)
          [] kind = "a4" ->
                 Entry(kind, "SA",
                       List(<<App("Heater", Num(1), Num(1)),
                              App("Lamp", Num(1), Num(1))>>),
                       id, key)
          [] OTHER ->
                 Entry(kind, "XX", List(<<App("Dryer", Num(1), Num(1))>>),
                       id, key)

\* The kind that follows `kind` in the rotation.
NextKind(kind) ==
    CASE kind = "a1" -> "a2"
      [] kind = "a2" -> "a3"
      [] kind = "a3" -> "a4"
      [] kind = "a4" -> "a5"
      [] OTHER -> "a1"

Query(page, appType, powerSource, region, sortOrder) ==
    [page |-> page, appType |-> appType, powerSource |-> powerSource,
     region |-> region, sortOrder |-> sortOrder]

NoQuery == Query(Undef, undefined, undefined, undefined, undefined)

\* Query strings of GET /leaderboard/entries under Spec.
Queries ==
    { Query(pg, at, ps, rg, so) :
        pg \in {Undef, NumStr(2)}, at \in {undefined, "Heater"},
        ps \in {undefined, "ANY", "Solar"}, rg \in {undefined, "NSW"},
        so \in {undefined, "LOW"} }
    \cup { Query(Undef, "Bogus", ps, undefined, undefined) :
              ps \in {undefined, "Solar"} }
    \cup { Query(Undef, undefined, ps, "Nowhere", undefined) :
              ps \in {undefined, "Solar"} }
    \cup { Query(Undef, undefined, ps, undefined, "sideways") :
              ps \in {undefined, "Solar"} }
    \cup { Query(Undef, undefined, ps, undefined, undefined) :
              ps \in {"SOLAR", "Nuclear", "constructor"} }

\* Page parameters: absent, zero, negative, in range, too large, no number.
PageParams ==
    {Undef, NumStr(0), NumStr(-1), NumStr(2), NumStr(3), NumStr(99), Text}

\* Query strings of GET /leaderboard/entries under SpecPaged.
PagedQueries ==
    { Query(pg, at, ps, rg, so) :
        pg \in PageParams, at \in {undefined, "Heater"},
        ps \in {undefined, "ANY", "Solar"}, rg \in {undefined, "NSW"},
        so \in {"HIGH", "LOW"} }

(***************************************************************************)
(* The state machine.  data is the array LeaderboardItemModel.data;        *)
(* available says that the field holds an array (the handlers test it for  *)
(* absence); last is the last request handled and the response it got.     *)
(***************************************************************************)
\* The request repeats the query that was answered last.
Repeats(op, query) ==
    op = "getEntries" /\ last.op = op /\ last.query = query

\* again says that the request repeats the one before it.
Response(op, query, status, stats, board) ==
    [op |-> op, query |-> query, status |-> status, stats |-> stats,
     board |-> board, again |-> Repeats(op, query)]

\* No location: the value of selectedLocation before initialize.
NoLocation ==
    [name |-> "", address |-> "", region |-> "", appliances |-> <<>>,
     publicId |-> undefined, privateId |-> undefined, isUploaded |-> FALSE]

\* No handlePost chain is running.
NoPost ==
    [pc |-> "idle", location |-> NoLocation, isUpdate |-> FALSE,
     method |-> "none", body |-> NoLocation, attempt |-> 0, status |-> 0,
     first |-> 0, outcome |-> "none"]

\* The browser before a page is opened: localStorage is empty.
Closed ==
    /\ locations = <<>>
    /\ editPage = [open |-> FALSE, selectedLocation |-> NoLocation,
                   nodes |-> <<>>]
    /\ listPage = [open |-> FALSE, cards |-> <<>>, post |-> NoPost,
                   deletes |-> <<>>]
    /\ leaderboardPage = [open |-> FALSE, currentPageEntries |-> <<>>,
                          currentPage |-> 1, totalPages |-> 1,
                          totalEntries |-> 0, region |-> "ALL",
                          sortOrder |-> "HIGH", requests |-> <<>>,
                          latest |-> NoQuery, failed |-> FALSE]

Start ==
    /\ data = <<>>
    /\ last = [op |-> "none", query |-> NoQuery, status |-> 0,
               stats |-> NoStats, board |-> NoBoard, again |-> FALSE]
    /\ Closed

Init ==
    /\ Start
    /\ available = TRUE

\* POST /leaderboard/upload; a TypeError of data.push is caught and
\* answered 400.
uploadNewEntry(body) ==
    /\ data' = IF available THEN insert(data, body) ELSE data
    /\ last' = Response("uploadNewEntry", NoQuery,
                        IF available THEN 200 ELSE 400, NoStats, NoBoard)
    /\ UNCHANGED available

\* PUT /leaderboard/upload; a TypeError of data.findIndex is caught and
\* answered 400.
updateEntry(body) ==
    LET r == IF available THEN updateLocation(data, body)
             ELSE [updated |-> FALSE, store |-> data]
    IN  /\ data' = r.store
        /\ last' = Response("updateEntry", NoQuery,
                            IF r.updated THEN 200 ELSE 400, NoStats, NoBoard)
        /\ UNCHANGED available

\* DELETE /leaderboard/delete with body {id}; a TypeError of data.length is
\* caught and answered 400.
deleteEntry(id) ==
    IF id = undefined \/ id = ""
    THEN /\ last' = Response("deleteEntry", NoQuery, 400, NoStats, NoBoard)
         /\ UNCHANGED <<data, available>>
    ELSE LET kept == IF available THEN RemoveByPrivateId(data, id, 1)
                     ELSE data
             deleted == Len(data) - Len(kept)
         IN  /\ data' = kept
             /\ last' = Response("deleteEntry", NoQuery,
                                 IF deleted > 0 THEN 200 ELSE 400,
                                 NoStats, NoBoard)
             /\ UNCHANGED available

\* A read leaves data as it is and overwrites last, so reading after a read
\* reaches exactly the states that reading at once reaches: the reads are
\* taken from the states a store request (or the start) has left.
AfterStoreRequest ==
    last.op \in {"none", "uploadNewEntry", "updateEntry", "deleteEntry"}

\* GET /leaderboard/entries; 500 when LeaderboardItemModel.data is absent.
EntriesResponse(query) ==
    LET r == IF available THEN getEntries(data, query)
             ELSE [status |-> 500, board |-> NoBoard]
    IN  Response("getEntries", query, r.status, NoStats, r.board)

\* GetEntries that takes the page out of the store (splice for slice).
GetEntries_splice(query) ==
    LET shown == {EntriesResponse(query).board.entries[i].publicId :
                     i \in 1..Len(EntriesResponse(query).board.entries)}
    IN  /\ AfterStoreRequest
        /\ last' = EntriesResponse(query)
        /\ data' = SelectSeq(data, LAMBDA e : e.publicId \notin shown)
        /\ UNCHANGED available

\* GET /leaderboard/entries
GetEntries(query) ==
    /\ AfterStoreRequest
    /\ last' = EntriesResponse(query)
    /\ UNCHANGED <<data, available>>

\* The query just answered, sent once more.
GetEntriesAgain ==
    \E query \in {last.query} :
        /\ last.op = "getEntries"
        /\ last' = EntriesResponse(query)
        /\ UNCHANGED <<data, available>>

\* LoadLeaderboard that sorts LeaderboardItemModel.data itself.
LoadLeaderboard_sortInPlace(page) ==
    LET r == IF available THEN loadLeaderboard(data, page)
             ELSE [status |-> 500, board |-> NoBoard]
        sorted == SortFrom(<<>>,
                           [i \in 1..Len(data) |->
                               WithSortValues(data[i], "GREEN")],
                           1, "HIGH", "GREEN")
    IN  /\ AfterStoreRequest
        /\ last' = Response("loadLeaderboard",
                            [NoQuery EXCEPT !.page = page],
                            r.status, NoStats, r.board)
        /\ data' = [i \in 1..Len(data) |->
                       [f \in DOMAIN data[i] |-> sorted[i][f]]]
        /\ UNCHANGED available

\* GET /leaderboard; data.map raises a TypeError when data is absent.
LoadLeaderboard(page) ==
    LET r == IF available THEN loadLeaderboard(data, page)
             ELSE [status |-> 500, board |-> NoBoard]
    IN  /\ AfterStoreRequest
        /\ last' = Response("loadLeaderboard",
                            [NoQuery EXCEPT !.page = page],
                            r.status, NoStats, r.board)
        /\ UNCHANGED <<data, available>>

\* GET /statistics/data; entries = LeaderboardItemModel.data || [].
GetAggregatedStats ==
    LET r == getAggregatedStats(IF available THEN data ELSE <<>>) IN
    /\ AfterStoreRequest
    /\ last' = Response("getAggregatedStats", NoQuery, r.status, r.stats,
                        NoBoard)
    /\ UNCHANGED <<data, available>>

Upload ==
    \E body \in Bodies :
        Len(data) < MaxEntries /\ uploadNewEntry(body) /\ UNCHANGED browser

Update == \E body \in Bodies : updateEntry(body) /\ UNCHANGED browser

Delete == \E id \in DeleteIds : deleteEntry(id) /\ UNCHANGED browser

ReadEntries == \E query \in Queries : GetEntries(query) /\ UNCHANGED browser

ReadPage ==
    \E page \in {Undef, NumStr(2)} : LoadLeaderboard(page) /\ UNCHANGED browser

ReadStats == GetAggregatedStats /\ UNCHANGED browser

ReadAgain == GetEntriesAgain /\ UNCHANGED browser

Next ==
    \/ Upload
    \/ Update
    \/ Delete
    \/ ReadEntries
    \/ ReadPage
    \/ ReadStats
    \/ ReadAgain

Spec == Init /\ [][Next]_vars

PagedUpload ==
    /\ Len(data) < MaxPaged
    /\ \E kind \in {PagedKinds[i] : i \in 1..Len(PagedKinds)} :
           /\ Len(data) > 0 => kind = NextKind(data[Len(data)].address)
           /\ uploadNewEntry(PagedBody(kind, Len(data) + 1))
           /\ UNCHANGED browser

PagedReadEntries ==
    \E query \in PagedQueries : GetEntries(query) /\ UNCHANGED browser

PagedReadPage ==
    \E page \in PageParams : LoadLeaderboard(page) /\ UNCHANGED browser

NextPaged ==
    \/ PagedUpload
    \/ PagedReadEntries
    \/ PagedReadPage
    \/ ReadStats

SpecPaged == Init /\ [][NextPaged]_vars

\* The same requests, served while LeaderboardItemModel.data may be absent.
InitOutage ==
    /\ Start
    /\ available \in BOOLEAN

SpecOutage == InitOutage /\ [][Next]_vars

(***************************************************************************)
(* The browser.  locations is the localStorage item "locations"; a stored  *)
(* location is the JSON of a LocationModel, a stored appliance is          *)
(* [type, hours, quantity].  An appliance object of a page carries, as     *)
(* ref, the identity that !== compares.                                    *)
(***************************************************************************)
\* At most MaxLocations locations are created.
MaxLocations == 2

\* The appliance list of the edit page never shows more than MaxAppliances.
MaxAppliances == 3

PublicIdOf(n) == "u" \o ToString(n)

PrivateIdOf(n) == "v" \o ToString(n)

\* new LocationModel(name); n stands for the two crypto.randomUUID() values.
NewLocation(name, n) ==
    [name |-> name, address |-> "", region |-> "", appliances |-> <<>>,
     publicId |-> PublicIdOf(n), privateId |-> PrivateIdOf(n),
     isUploaded |-> FALSE]

\* The numbers whose ids no stored location and no server entry carries: a
\* random UUID is an id that occurs nowhere.
FreshIds ==
    {n \in 1..MaxLocations :
        /\ \A i \in 1..Len(locations) :
               locations[i].privateId # PrivateIdOf(n)
        /\ \A i \in 1..Len(data) : data[i].privateId # PrivateIdOf(n)}

\* JSON.parse and init of a stored appliance list: one object per item.
ParseAppliances(stored) ==
    [j \in 1..Len(stored) |->
        [type |-> stored[j].type, hours |-> stored[j].hours,
         quantity |-> stored[j].quantity, ref |-> j]]

\* JSON.stringify of an appliance list.
StringifyAppliances(appliances) ==
    [j \in 1..Len(appliances) |->
        [type |-> appliances[j].type, hours |-> appliances[j].hours,
         quantity |-> appliances[j].quantity]]

\* A location object read from localStorage.
ParseLocation(stored) ==
    [stored EXCEPT !.appliances = ParseAppliances(stored.appliances)]

\* The JSON of a location object.
StringifyLocation(location) ==
    [location EXCEPT !.appliances = StringifyAppliances(location.appliances)]

RECURSIVE ClientFindIndex(_, _, _)
\* data.findIndex(location => location.privateId === privateId), 0 for -1
ClientFindIndex(stored, privateId, i) ==
    IF i > Len(stored) THEN 0
    ELSE IF stored[i].privateId = privateId THEN i
    ELSE ClientFindIndex(stored, privateId, i + 1)

\* LocationModel.updateLocation with ClientDataModel.update: the stored
\* list after the call; nothing is saved when no location matches.
ClientUpdateLocation(stored, newLocationData) ==
    LET index == ClientFindIndex(stored, newLocationData.privateId, 1)
    IN  IF index # 0
        THEN [stored EXCEPT ![index] = StringifyLocation(newLocationData)]
        ELSE stored

\* LocationModel.deleteById with ClientDataModel.delete
ClientDeleteById(stored, privateId) ==
    SelectSeq(stored, LAMBDA location : location.privateId # privateId)

ClosedEditPage ==
    [open |-> FALSE, selectedLocation |-> NoLocation, nodes |-> <<>>]

ClosedListPage ==
    [open |-> FALSE, cards |-> <<>>, post |-> NoPost, deletes |-> <<>>]

\* LocationEditController.initialize and populateUI for ?id=publicId on
\* the stored list `stored`, which holds a location with that publicId.
initialize(stored, publicId) ==
    LET found == {i \in 1..Len(stored) : stored[i].publicId = publicId}
        first == CHOOSE i \in found : \A j \in found : i <= j
        location == ParseLocation(stored[first])
    IN  [open |-> TRUE, selectedLocation |-> location,
         nodes |-> location.appliances]

\* LocationListController: the page is loaded and renders
\* LocationModel.getAll().
OpenList ==
    /\ ~listPage.open
    /\ listPage' = [open |-> TRUE,
                    cards |-> [i \in 1..Len(locations) |->
                                  ParseLocation(locations[i])],
                    post |-> NoPost, deletes |-> <<>>]
    /\ editPage' = ClosedEditPage
    /\ UNCHANGED <<data, available, last, locations, leaderboardPage>>

\* handleCreateLocation: a name that is empty after trim() is refused; the
\* page then moves to the edit page of the new location.
handleCreateLocation(locationName) ==
    /\ listPage.open
    /\ locationName # ""
    /\ Len(locations) < MaxLocations
    /\ FreshIds # {}
    /\ LET n == CHOOSE m \in FreshIds : \A k \in FreshIds : m <= k
           newLocation == NewLocation(locationName, n)
       IN  /\ locations' = Append(locations, newLocation)
           /\ editPage' = initialize(locations', newLocation.publicId)
    /\ listPage' = ClosedListPage
    /\ UNCHANGED <<data, available, last, leaderboardPage>>

\* The edit link of card i.
OpenEdit(i) ==
    /\ listPage.open
    /\ \E j \in 1..Len(locations) :
           locations[j].publicId = listPage.cards[i].publicId
    /\ editPage' = initialize(locations, listPage.cards[i].publicId)
    /\ listPage' = ClosedListPage
    /\ UNCHANGED <<data, available, last, locations, leaderboardPage>>

\* /^[\w\d ]{3,}$/, /^\d+ (\w+ ?)+$/ and the region names, on the values
\* the form is given here.
validateLocation(name, address, region) ==
    /\ name \in {"Home", "Shed"}
    /\ address \in {"1 A St"}
    /\ region \in {"NSW", "TAS"}

\* validateAppliance: TRUE when no message is returned.
validateAppliance(typeName, usage, quantity) ==
    /\ \E i \in 1..Len(types) : types[i].name = typeName
    /\ usage >= 0
    /\ quantity # 0 /\ quantity > 0

\* The smallest identity no appliance object of the page has.
NewRef(nodes) ==
    CHOOSE r \in 1..(Len(nodes) + 1) :
        /\ \A j \in 1..Len(nodes) : nodes[j].ref # r
        /\ \A q \in 1..(r - 1) : \E j \in 1..Len(nodes) : nodes[j].ref = q

\* addApppliance: the new appliance is pushed to the list of the selected
\* location and shown; nothing is saved.
addApppliance(typeName, usage, quantity) ==
    /\ editPage.open
    /\ validateAppliance(typeName, usage, quantity)
    /\ Len(editPage.nodes) < MaxAppliances
    /\ LET newAppliance == [type |-> typeName, hours |-> usage,
                            quantity |-> quantity,
                            ref |-> NewRef(editPage.nodes)]
       IN  editPage' =
               [editPage EXCEPT
                   !.selectedLocation.appliances = Append(@, newAppliance),
                   !.nodes = Append(@, newAppliance)]
    /\ UNCHANGED <<data, available, last, locations, listPage,
                   leaderboardPage>>

\* saveLocation: the form values are validated, written to the selected
\* location, and the location is saved to localStorage.
saveLocation(name, address, region) ==
    /\ editPage.open
    /\ validateLocation(name, address, region)
    /\ editPage' = [editPage EXCEPT !.selectedLocation.name = name,
                                    !.selectedLocation.address = address,
                                    !.selectedLocation.region = region]
    /\ locations' = ClientUpdateLocation(locations, editPage'.selectedLocation)
    /\ UNCHANGED <<data, available, last, listPage, leaderboardPage>>

\* appliance.id: ApplianceModel has the fields type, hours and quantity.
IdOf(appliance) == undefined

\* bool == value: the boolean is converted to 1 or 0, and undefined equals
\* no number.
LooseEquals(bool, value) ==
    IF value = undefined THEN FALSE
    ELSE value = (IF bool THEN "1" ELSE "0")

\* The filter callback of deleteAppliance: app !== appliance == appliance.id
\* is read (app !== appliance) == appliance.id.
KeepsAppliance(app, appliance) ==
    LooseEquals(app.ref # appliance.ref, IdOf(appliance))

\* deleteAppliance for the appliance of node k: the node is removed, the
\* list of the selected location is filtered and the location is saved.
deleteAppliance(k) ==
    /\ editPage.open
    /\ k \in 1..Len(editPage.nodes)
    /\ LET appliance == editPage.nodes[k] IN
       editPage' =
           [editPage EXCEPT
               !.nodes = SubSeq(@, 1, k - 1) \o SubSeq(@, k + 1, Len(@)),
               !.selectedLocation.appliances =
                   SelectSeq(@, LAMBDA app : KeepsAppliance(app, appliance))]
    /\ locations' = ClientUpdateLocation(locations, editPage'.selectedLocation)
    /\ UNCHANGED <<data, available, last, listPage, leaderboardPage>>

\* The values typed into the forms.
LocationNames == {"", "Home"}

LocationForms ==
    {<<"Home", "1 A St", "NSW">>, <<"Shed", "1 A St", "TAS">>,
     <<"Ho", "1 A St", "NSW">>, <<"Home", "nowhere", "NSW">>,
     <<"Home", "1 A St", "XX">>}

ApplianceForms ==
    {<<"Heater", 2, 1>>, <<"Heater", 2, 3>>, <<"Bogus", 2, 1>>,
     <<"Heater", -1, 1>>, <<"Heater", 2, 0>>}

CreateLocation == \E name \in LocationNames : handleCreateLocation(name)

EditLocation == \E i \in 1..Len(listPage.cards) : OpenEdit(i)

AddAppliance ==
    \E form \in ApplianceForms : addApppliance(form[1], form[2], form[3])

SaveLocation ==
    \E form \in LocationForms : saveLocation(form[1], form[2], form[3])

DeleteAppliance == \E k \in 1..MaxAppliances : deleteAppliance(k)

NextEdit ==
    \/ OpenList
    \/ CreateLocation
    \/ EditLocation
    \/ AddAppliance
    \/ SaveLocation
    \/ DeleteAppliance

\* The location list page and the location edit page in one tab.
SpecEdit == Init /\ [][NextEdit]_vars

\* JSON.stringify of the appliances of a location, as the server reads it.
BodyAppliances(appliances) ==
    List([j \in 1..Len(appliances) |->
             App(appliances[j].type, Num(appliances[j].hours),
                 Num(appliances[j].quantity))])

\* The request body of handlePost.
BodyOf(location) ==
    [name |-> location.name, address |-> location.address,
     region |-> location.region,
     appliances |-> BodyAppliances(location.appliances),
     publicId |-> location.publicId, privateId |-> location.privateId]

\* The handlePost chain when it has ended: the button is enabled again.
Ended(post, outcome) == [post EXCEPT !.pc = "idle", !.outcome = outcome]

\* handlePost for the location of card i, up to the first fetch: PUT for a
\* location flagged isUploaded, POST otherwise.  The button is disabled
\* until the chain ends.
handlePost(i) ==
    /\ listPage.open
    /\ listPage.post.pc = "idle"
    /\ LET location == listPage.cards[i]
           isUpdate == location.isUploaded
       IN  listPage' =
               [listPage EXCEPT
                   !.post = [pc |-> "sent", location |-> location,
                             isUpdate |-> isUpdate,
                             method |-> IF isUpdate THEN "PUT" ELSE "POST",
                             body |-> BodyOf(location), attempt |-> 1,
                             status |-> 0, first |-> 0, outcome |-> "none"]]
    /\ UNCHANGED <<data, available, last, locations, editPage,
                   leaderboardPage>>

\* The server receives the request of the chain: PUT and POST
\* /leaderboard/upload.  An upload is served while the store holds fewer
\* than MaxEntries entries.
ServePost ==
    /\ listPage.post.pc = "sent"
    /\ IF listPage.post.method = "PUT"
       THEN updateEntry(listPage.post.body)
       ELSE Len(data) < MaxEntries /\ uploadNewEntry(listPage.post.body)
    /\ listPage' = [listPage EXCEPT !.post.pc = "answered",
                                    !.post.status = last'.status]
    /\ UNCHANGED <<locations, editPage, leaderboardPage>>

\* ReceiveResponse that reports a failed PUT as a failure.
ReceiveResponse_noFallback ==
    /\ listPage.post.pc = "answered"
    /\ LET post == listPage.post
           ok == post.status = 200
           location == [post.location EXCEPT !.isUploaded = TRUE]
       IN  IF ok
           THEN /\ listPage' =
                       [listPage EXCEPT
                           !.post = Ended(post, "posted"),
                           !.cards = [c \in 1..Len(@) |->
                                         IF @[c].privateId = location.privateId
                                         THEN [@[c] EXCEPT !.isUploaded = TRUE]
                                         ELSE @[c]]]
                /\ locations' = ClientUpdateLocation(locations, location)
           ELSE /\ listPage' = [listPage EXCEPT !.post = Ended(post, "failed")]
                /\ UNCHANGED locations
    /\ UNCHANGED <<data, available, last, editPage, leaderboardPage>>

\* The response of the request arrives: the then-callbacks of handlePost.
\* A response that is ok sets location.isUploaded and saves the location; a
\* failed PUT is followed by a POST with the same body; any other failure
\* is thrown and caught.
ReceiveResponse ==
    /\ listPage.post.pc = "answered"
    /\ LET post == listPage.post
           ok == post.status = 200
           location == [post.location EXCEPT !.isUploaded = TRUE]
       IN  IF ok
           THEN /\ listPage' =
                       [listPage EXCEPT
                           !.post = Ended(post, "posted"),
                           !.cards = [c \in 1..Len(@) |->
                                         IF @[c].privateId = location.privateId
                                         THEN [@[c] EXCEPT !.isUploaded = TRUE]
                                         ELSE @[c]]]
                /\ locations' = ClientUpdateLocation(locations, location)
           ELSE IF post.isUpdate /\ post.method = "PUT"
           THEN /\ listPage' =
                       [listPage EXCEPT
                           !.post = [post EXCEPT !.pc = "sent",
                                                 !.method = "POST",
                                                 !.attempt = 2,
                                                 !.first = post.status,
                                                 !.status = 0]]
                /\ UNCHANGED locations
           ELSE /\ listPage' = [listPage EXCEPT !.post = Ended(post, "failed")]
                /\ UNCHANGED locations
    /\ UNCHANGED <<data, available, last, editPage, leaderboardPage>>

\* fetch rejects: the request or its response is lost, and the
\* catch-callback of handlePost runs.
FetchFails ==
    /\ listPage.post.pc \in {"sent", "answered"}
    /\ listPage' = [listPage EXCEPT !.post = Ended(listPage.post, "failed")]
    /\ UNCHANGED <<data, available, last, locations, editPage,
                   leaderboardPage>>

\* handleDelete for the location of card i, confirmed: the location is
\* deleted from localStorage and the card removed; DELETE
\* /leaderboard/delete is sent for a location flagged isUploaded.
handleDelete(i) ==
    /\ listPage.open
    /\ LET location == listPage.cards[i] IN
       /\ locations' = ClientDeleteById(locations, location.privateId)
       /\ listPage' =
              [listPage EXCEPT
                  !.cards = SubSeq(@, 1, i - 1) \o SubSeq(@, i + 1, Len(@)),
                  !.deletes = IF location.isUploaded
                              THEN Append(@, location.privateId) ELSE @]
    /\ UNCHANGED <<data, available, last, editPage, leaderboardPage>>

\* The server receives the j-th DELETE request in flight; its response is
\* logged.
ServeDelete(j) ==
    /\ deleteEntry(listPage.deletes[j])
    /\ listPage' =
           [listPage EXCEPT
               !.deletes = SubSeq(@, 1, j - 1) \o SubSeq(@, j + 1, Len(@))]
    /\ UNCHANGED <<locations, editPage, leaderboardPage>>

\* The server process is started again: the store is in memory only.
Restart ==
    /\ data # <<>>
    /\ data' = <<>>
    /\ last' = [op |-> "none", query |-> NoQuery, status |-> 0,
                stats |-> NoStats, board |-> NoBoard, again |-> FALSE]
    /\ UNCHANGED <<available, browser>>

PostLocation == \E i \in 1..Len(listPage.cards) : handlePost(i)

DeleteLocation == \E i \in 1..Len(listPage.cards) : handleDelete(i)

DeleteRequest == \E j \in 1..Len(listPage.deletes) : ServeDelete(j)

NextPost ==
    \/ OpenList
    \/ CreateLocation
    \/ PostLocation
    \/ ServePost
    \/ ReceiveResponse
    \/ FetchFails
    \/ DeleteLocation
    \/ DeleteRequest
    \/ Restart

\* The location list page, the network and the server.
SpecPost == Init /\ [][NextPost]_vars

\* SpecBoard: uploads stop at MaxBoard entries, two pages of the leaderboard.
MaxBoard == 17

\* SpecBoard: at most MaxInFlight requests of the leaderboard page are
\* without their response.
MaxInFlight == 2

\* The query string fetchLeaderboardPage builds from currentPage, the
\* three selects and currentFilters.sortOrder.
QueryParams(currentPage, region, sortOrder) ==
    Query(NumStr(currentPage), "ANY", "ANY", region, sortOrder)

\* fetchLeaderboardPage up to its await: the request is sent.
Fetching(board) ==
    LET queryParams ==
            QueryParams(board.currentPage, board.region, board.sortOrder)
    IN  [board EXCEPT !.requests = Append(@, queryParams),
                      !.latest = queryParams]

\* The leaderboard page is loaded: the static initializer fetches page 1
\* with the filters as the page has them.
OpenLeaderboard ==
    /\ ~leaderboardPage.open
    /\ leaderboardPage' = Fetching([leaderboardPage EXCEPT !.open = TRUE])
    /\ UNCHANGED <<data, available, last, locations, editPage, listPage>>

\* handleFilterChange after the region select was set to `region`.
handleFilterChange(region) ==
    /\ leaderboardPage.open
    /\ Len(leaderboardPage.requests) < MaxInFlight
    /\ region # leaderboardPage.region
    /\ leaderboardPage' =
           Fetching([leaderboardPage EXCEPT !.region = region,
                                            !.currentPage = 1])
    /\ UNCHANGED <<data, available, last, locations, editPage, listPage>>

\* handleSortChange for the value of the sort select
handleSortChange(value) ==
    /\ leaderboardPage.open
    /\ Len(leaderboardPage.requests) < MaxInFlight
    /\ value # leaderboardPage.sortOrder
    /\ leaderboardPage' =
           Fetching([leaderboardPage EXCEPT !.sortOrder = value,
                                            !.currentPage = 1])
    /\ UNCHANGED <<data, available, last, locations, editPage, listPage>>

\* changePage
changePage(newPage) ==
    /\ leaderboardPage.open
    /\ Len(leaderboardPage.requests) < MaxInFlight
    /\ ~(\/ newPage < 1
         \/ newPage > leaderboardPage.totalPages
         \/ newPage = leaderboardPage.currentPage)
    /\ leaderboardPage' =
           Fetching([leaderboardPage EXCEPT !.currentPage = newPage])
    /\ UNCHANGED <<data, available, last, locations, editPage, listPage>>

\* What the page holds after the response `response` of a request: a
\* response that is not ok leaves the fields and shows an error.
Shown(board, response) ==
    IF response.status = 200
    THEN [board EXCEPT !.currentPageEntries = response.board.entries,
                       !.currentPage = response.board.currentPage,
                       !.totalPages = response.board.totalPages,
                       !.totalEntries = response.board.totalEntries,
                       !.failed = FALSE]
    ELSE [board EXCEPT !.failed = TRUE]

\* The j-th request in flight is served by GET /leaderboard/entries and
\* its response arrives: fetchLeaderboardPage goes on after its await,
\* whatever was requested since.
FetchCompletes(j) ==
    LET queryParams == leaderboardPage.requests[j]
        response == EntriesResponse(queryParams)
        rest == [leaderboardPage EXCEPT
                    !.requests = SubSeq(@, 1, j - 1)
                                 \o SubSeq(@, j + 1, Len(@))]
    IN  /\ last' = response
        /\ leaderboardPage' = Shown(rest, response)
        /\ UNCHANGED <<data, available, locations, editPage, listPage>>

\* Entries are uploaded before the page is loaded.
BoardUpload ==
    /\ ~leaderboardPage.open
    /\ Len(data) < MaxBoard
    /\ PagedUpload

FilterChange == \E region \in {"ALL", "NSW"} : handleFilterChange(region)

SortChange == \E value \in {"HIGH", "LOW"} : handleSortChange(value)

ChangePage ==
    \E newPage \in {leaderboardPage.currentPage - 1,
                    leaderboardPage.currentPage + 1} : changePage(newPage)

Arrival == \E j \in 1..Len(leaderboardPage.requests) : FetchCompletes(j)

NextBoard ==
    \/ BoardUpload
    \/ OpenLeaderboard
    \/ FilterChange
    \/ SortChange
    \/ ChangePage
    \/ Arrival

\* The leaderboard page of the browser and the server.
SpecBoard == Init /\ [][NextBoard]_vars

(***************************************************************************)
(* Properties.  The definitions below state the claims; they read the      *)
(* store and the last response and recompute what the claim names          *)
(* directly from the store.                                                *)
(***************************************************************************)
RECURSIVE SumLocationPower(_, _)
\* The sum of locationPower(e.appliances) over entries i.. of the list.
SumLocationPower(entries, i) ==
    IF i > Len(entries) THEN 0
    ELSE getLocationPower(entries[i].appliances)
         + SumLocationPower(entries, i + 1)

RECURSIVE SumWeights(_, _)
SumWeights(list, i) ==
    IF i > Len(list) THEN 0 ELSE list[i].weight + SumWeights(list, i + 1)

AllNumbers(list) == \A i \in 1..Len(list) : list[i].isNumber

\* The weight listed under `name`, 0 when the list has no such item.
WeightOf(list, name) ==
    LET i == OwnIndex(list, name, 1) IN IF i = 0 THEN 0 ELSE list[i].weight

TableRegions == {RegionPowerData[i].name : i \in 1..Len(RegionPowerData)}

RECURSIVE RegionTotal(_, _, _)
\* The power of the entries whose region is `region`.
RegionTotal(entries, region, i) ==
    IF i > Len(entries) THEN 0
    ELSE (IF entries[i].region = region
          THEN getLocationPower(entries[i].appliances) ELSE 0)
         + RegionTotal(entries, region, i + 1)

\* The list without its i-th item.
Without(list, i) == SubSeq(list, 1, i - 1) \o SubSeq(list, i + 1, Len(list))

StatsReturned == last.op = "getAggregatedStats" /\ last.status = 200

\* C1: whenever the statistics aggregation returns a result, its
\* totalEnergy is the sum of locationPower(entry.appliances) over the
\* stored entries, whatever their regions and appliance types.
C1_TotalEnergyIsSumOfEntries ==
    StatsReturned => last.stats.totalEnergy = SumLocationPower(data, 1)

\* C1 witness: a result over two entries of nonzero power, one in a table
\* region and one in a region the table does not have.
C1_Witness ==
    /\ StatsReturned
    /\ Len(data) = 2
    /\ data[1].region \in TableRegions
    /\ data[2].region \notin TableRegions
    /\ getLocationPower(data[1].appliances) > 0
    /\ getLocationPower(data[2].appliances) > 0
    /\ last.stats.totalEnergy > getLocationPower(data[1].appliances)

\* C2: the weights of the per-region list (stateData) are numbers whose sum
\* is totalEnergy.
C2_RegionWeightsSumToTotal ==
    StatsReturned =>
        /\ AllNumbers(last.stats.stateData)
        /\ SumWeights(last.stats.stateData, 1) = last.stats.totalEnergy

\* C3: an entry whose region is not in the Region Power Mix table adds its
\* power to totalEnergy and to the bucket of its region (the default bucket
\* when it has no region) and leaves every per-source weight as it is
\* without the entry.
C3_UnknownRegionEntry ==
    StatsReturned =>
        \A i \in 1..Len(data) :
            data[i].region \notin TableRegions =>
                LET rest == getAggregatedStats(Without(data, i)).stats
                    power == getLocationPower(data[i].appliances)
                    bucket == RegionNameOf(data[i])
                IN  /\ last.stats.totalEnergy = rest.totalEnergy + power
                    /\ AllNumbers(last.stats.stateData)
                    /\ WeightOf(last.stats.stateData, bucket)
                           = WeightOf(rest.stateData, bucket) + power
                    /\ last.stats.sourceData = rest.sourceData

RECURSIVE SourceShare(_, _, _)
\* In hundredths: the sum over the table regions with a positive total of
\* regionTotal * (the region's percentage for the source, 0 if it has
\* none).
SourceShare(entries, source, i) ==
    IF i > Len(RegionPowerData) THEN 0
    ELSE LET regionTotal == RegionTotal(entries, RegionPowerData[i].name, 1)
         IN  (IF regionTotal > 0
              THEN regionTotal
                   * SourcePct(RegionPowerData[i].powerSources, source, 1)
              ELSE 0)
             + SourceShare(entries, source, i + 1)

SourceNames == {"wind", "solar", "gas", "coal", "hydro"}

\* C4: in a result, the weight of each capitalized source name is the sum,
\* over the table regions with a positive accumulated total, of
\* regionTotal * percentage / 100 (weights are kept in hundredths); a
\* region with no power and a source a mix does not have contribute 0, and
\* no other name is listed.
C4_SourceWeights ==
    StatsReturned =>
        /\ AllNumbers(last.stats.sourceData)
        /\ \A s \in SourceNames :
               WeightOf(last.stats.sourceData, Capitalize(s))
                   = SourceShare(data, s, 1)
        /\ \A i \in 1..Len(last.stats.sourceData) :
               \E s \in SourceNames :
                   last.stats.sourceData[i].name = Capitalize(s)

\* C4 witness: a result over two table regions with different mixes, both
\* with a positive total.
C4_Witness ==
    /\ StatsReturned
    /\ Len(data) = 2
    /\ data[1].region = "NSW" /\ data[2].region = "TAS"
    /\ RegionTotal(data, "NSW", 1) > 0 /\ RegionTotal(data, "TAS", 1) > 0
    /\ WeightOf(last.stats.sourceData, "Wind")
           = 12 * RegionTotal(data, "NSW", 1) + 60 * RegionTotal(data, "TAS", 1)

\* C5: when every stored entry is in a table region, the per-source weights
\* (in hundredths) sum to the per-region weights, and so to totalEnergy.
C5_SourcesSumToRegions ==
    (StatsReturned /\ \A i \in 1..Len(data) : data[i].region \in TableRegions)
        => /\ SumWeights(last.stats.sourceData, 1)
                  = 100 * SumWeights(last.stats.stateData, 1)
           /\ SumWeights(last.stats.sourceData, 1)
                  = 100 * last.stats.totalEnergy

QueryReturned == last.op = "getEntries" /\ last.status = 200

RECURSIVE AllPages(_, _, _, _)
\* The entries of pages p..totalPages of the query, one request per page.
AllPages(entries, query, p, totalPages) ==
    IF p > totalPages THEN <<>>
    ELSE getEntries(entries, [query EXCEPT !.page = NumStr(p)]).board.entries
         \o AllPages(entries, query, p + 1, totalPages)

PowerOf(entry) == getLocationPower(entry.appliances)

\* C6: with powerSource = ANY the entries read across pages 1..totalPages
\* are ordered by locationPower: non-increasing for sortOrder = HIGH,
\* non-decreasing for LOW.
C6_OrderedByPowerAcrossPages ==
    (QueryReturned /\ last.query.powerSource = "ANY"
       /\ last.query.sortOrder \in {"HIGH", "LOW"}) =>
        LET all == AllPages(data, last.query, 1, last.board.totalPages) IN
        /\ Len(all) = last.board.totalEntries
        /\ \A i \in 1..(Len(all) - 1) :
               IF last.query.sortOrder = "HIGH"
               THEN PowerOf(all[i]) >= PowerOf(all[i + 1])
               ELSE PowerOf(all[i]) <= PowerOf(all[i + 1])

\* C6 witness: three pages, the middle one returned, sorted HIGH, with
\* entries of different power stored in another order.
C6_Witness ==
    /\ QueryReturned
    /\ last.query.powerSource = "ANY" /\ last.query.sortOrder = "HIGH"
    /\ last.board.totalPages = 3 /\ last.board.currentPage = 2
    /\ Len(last.board.entries) = PAGE_SIZE
    /\ PowerOf(data[1]) < PowerOf(data[Len(data)])
    /\ PowerOf(last.board.entries[1]) > PowerOf(last.board.entries[PAGE_SIZE])

\* The score the query sorts by, recomputed for a returned entry.
ScoreOf(entry) ==
    calculateSortValues(entry, OrDefault(last.query.powerSource, "GREEN"))
        .sortValue

\* C7: with powerSource other than ANY, two returned entries of equal
\* sortValue are ordered by totalPower in the direction of the sort: the
\* higher first for HIGH, the lower first for LOW.
C7_TieBreakByTotalPower ==
    (QueryReturned /\ OrDefault(last.query.powerSource, "GREEN") # "ANY"
       /\ last.query.sortOrder \in {"HIGH", "LOW"}) =>
        \A i, j \in 1..Len(last.board.entries) :
            (i < j /\ ScoreOf(last.board.entries[i])
                        = ScoreOf(last.board.entries[j])) =>
                IF last.query.sortOrder = "HIGH"
                THEN PowerOf(last.board.entries[i])
                         >= PowerOf(last.board.entries[j])
                ELSE PowerOf(last.board.entries[i])
                         <= PowerOf(last.board.entries[j])

\* C7 witness: sorted by Solar, HIGH; two returned entries have the same
\* solar share, the one of higher power comes first although it was
\* stored later.
C7_Witness ==
    /\ QueryReturned
    /\ last.query.powerSource = "Solar" /\ last.query.sortOrder = "HIGH"
    /\ \E i, j \in 1..Len(last.board.entries) :
           /\ i < j
           /\ ScoreOf(last.board.entries[i]) = ScoreOf(last.board.entries[j])
           /\ PowerOf(last.board.entries[i]) > PowerOf(last.board.entries[j])
           /\ \E a, b \in 1..Len(data) :
                  /\ a < b
                  /\ data[a].publicId = last.board.entries[j].publicId
                  /\ data[b].publicId = last.board.entries[i].publicId

\* An entry with an appliance whose type name is `name`.
HasTypeNamed(entry, name) ==
    /\ entry.appliances.kind = "array"
    /\ \E k \in DOMAIN entry.appliances.items :
           /\ ~entry.appliances.items[k].isNull
           /\ entry.appliances.items[k].type = name

\* C8: with an appType filter other than ANY, every returned entry has an
\* appliance of that type, and totalEntries is the number of stored entries
\* that have one and are in the requested region.
C8_ApplianceFilter ==
    (QueryReturned /\ OrDefault(last.query.appType, "ANY") # "ANY") =>
        /\ \A i \in 1..Len(last.board.entries) :
               HasTypeNamed(last.board.entries[i], last.query.appType)
        /\ last.board.totalEntries =
               Cardinality({i \in 1..Len(data) :
                   /\ HasTypeNamed(data[i], last.query.appType)
                   /\ \/ OrDefault(last.query.region, "ALL") = "ALL"
                      \/ data[i].region = last.query.region})

\* C8 witness: the store holds an entry with a Heater and one without, and
\* the query filtered by Heater returned the first only.
C8_Witness ==
    /\ QueryReturned
    /\ last.query.appType = "Heater" /\ last.query.region = undefined
    /\ Len(data) = 2
    /\ HasTypeNamed(data[1], "Heater") /\ ~HasTypeNamed(data[2], "Heater")
    /\ PowerOf(data[2]) > 0
    /\ last.board.totalEntries = 1
    /\ Len(last.board.entries) = 1
    /\ last.board.entries[1].publicId = data[1].publicId

\* C9: for every page parameter the query answers with a result whose
\* currentPage is within 1..totalPages: 1 for a parameter below 1 or no
\* number, the last page for a parameter above totalPages.
C9_PageClamped ==
    last.op = "getEntries" =>
        LET n == ToNumber(last.query.page) IN
        /\ last.status = 200
        /\ last.board.currentPage \in 1..last.board.totalPages
        /\ (n.nan \/ n.v < 1) => last.board.currentPage = 1
        /\ (~n.nan /\ n.v > last.board.totalPages) =>
               last.board.currentPage = last.board.totalPages

\* C10: every leaderboard result, of the JSON endpoint and of the rendered
\* page, has totalPages = ceil(totalEntries / 16), and 1 when there is no
\* entry.
C10_TotalPages ==
    (last.op \in {"getEntries", "loadLeaderboard"} /\ last.status = 200) =>
        IF last.board.totalEntries = 0 THEN last.board.totalPages = 1
        ELSE /\ last.board.totalPages * 16 >= last.board.totalEntries
             /\ (last.board.totalPages - 1) * 16 < last.board.totalEntries


ReadOps == {"getEntries", "loadLeaderboard", "getAggregatedStats"}

\* C11: whatever the store holds and whatever the filter, sort and page
\* parameters are, every entry of the JSON leaderboard response has the
\* fields address, region, appliances and publicId and no other; it has no
\* privateId.
C11_NoPrivateIdInResponse ==
    QueryReturned =>
        \A i \in 1..Len(last.board.entries) :
            /\ "privateId" \notin DOMAIN last.board.entries[i]
            /\ DOMAIN last.board.entries[i] =
                   {"address", "region", "appliances", "publicId"}

\* C11 witness: a response of two entries, both stored with a privateId.
C11_Witness ==
    /\ QueryReturned
    /\ Len(last.board.entries) = 2
    /\ \A i \in 1..Len(data) : data[i].privateId # undefined

C13_ReadsLeaveStore ==
    [][last'.op \in ReadOps => (data' = data /\ available' = available)]_vars

\* C13 witness: the rendered page lists two stored entries in another order
\* than the store holds them.
C13_Witness ==
    /\ last.op = "loadLeaderboard" /\ last.status = 200
    /\ Len(data) = 2
    /\ Len(last.board.locations) = 2
    /\ last.board.locations[1].publicId = data[2].publicId
    /\ data[1].publicId # data[2].publicId

\* C14: after any sequence of uploads, partially-typed entries included,
\* the leaderboard query completes with a result.
C14_QueryCompletes ==
    (available /\ last.op = "getEntries") => last.status = 200

\* C15: after any sequence of uploads, corrupt records included, the
\* statistics aggregation completes with a result, in which a record
\* without a usable appliances list contributes zero.
C15_StatsCompletes ==
    (available /\ last.op = "getAggregatedStats") =>
        /\ last.status = 200
        /\ last.stats.totalEnergy = SumLocationPower(data, 1)

RecognizedAppTypes == {"ANY"} \cup {types[i].name : i \in 1..Len(types)}

RecognizedRegions ==
    {"ALL"} \cup {RegionPowerData[i].name : i \in 1..Len(RegionPowerData)}

\* The query with every unrecognized appType, region and sortOrder value
\* replaced by its default.
WithDefaults(query) ==
    [query EXCEPT
        !.appType = IF @ = undefined \/ @ \in RecognizedAppTypes
                    THEN @ ELSE "ANY",
        !.region = IF @ = undefined \/ @ \in RecognizedRegions
                   THEN @ ELSE "ALL",
        !.sortOrder = IF @ \in {undefined, "HIGH", "LOW"} THEN @ ELSE "HIGH"]

\* C17: a leaderboard request with an unrecognized appType, region or
\* sortOrder value is answered as the same request with that parameter set
\* to its default (ANY, ALL, HIGH), whenever that request has a result.
C17_UnrecognizedAsDefault ==
    LET r == getEntries(data, WithDefaults(last.query)) IN
    (available /\ last.op = "getEntries" /\ r.status = 200) =>
        /\ last.status = r.status
        /\ last.board = r.board

\* C18: an update request leaves the publicId of every stored entry as it
\* was.
C18_PublicIdStable ==
    [][\A body \in Bodies :
           updateEntry(body) =>
               /\ Len(data') = Len(data)
               /\ \A i \in 1..Len(data) :
                      data'[i].publicId = data[i].publicId]_vars

\* The entries of the store whose privateId is not k, in store order.
Kept(store, k) == SelectSeq(store, LAMBDA e : e.privateId # k)

C20_StoredEntriesHaveIds ==
    \A i \in 1..Len(data) :
        data[i].publicId # undefined /\ data[i].privateId # undefined

\* C21: at most one stored entry carries a given privateId, so that a
\* delete by privateId removes 0 or 1 entries.
C21_OneEntryPerPrivateId ==
    \A i, j \in 1..Len(data) :
        i # j => data[i].privateId # data[j].privateId

\* C23: the power of a stored appliance is never negative: a negative or
\* non-numeric hours or quantity counts as 0.
C23_AppliancePowerNotNegative ==
    \A i \in 1..Len(data) :
        data[i].appliances.kind = "array" =>
            \A j \in 1..Len(data[i].appliances.items) :
                /\ getAppliancePower(data[i].appliances.items[j]) >= 0
                /\ getLocationPower(data[i].appliances) >= 0

\* C24: the unfiltered query (appType ANY, region ALL) reports as
\* totalEntries the number of entries uploaded and not removed, which is
\* the length of the store, and its first page of a store of at most
\* PAGE_SIZE entries shows every one of them.
C24_UnfilteredCountsStore ==
    (/\ last.op = "getEntries"
     /\ OrDefault(last.query.appType, "ANY") = "ANY"
     /\ OrDefault(last.query.region, "ALL") = "ALL") =>
        /\ last.status = 200
        /\ last.board.totalEntries = Len(data)
        /\ (last.query.page = Undef /\ Len(data) <= PAGE_SIZE) =>
               /\ Len(last.board.entries) = Len(data)
               /\ \A i \in 1..Len(data) :
                      \E j \in 1..Len(last.board.entries) :
                          last.board.entries[j].publicId = data[i].publicId

\* C25: the locations loadLeaderboard hands to its view carry no privateId.
C25_NoPrivateIdInView ==
    last.op = "loadLeaderboard" =>
        \A i \in 1..Len(last.board.locations) :
            last.board.locations[i].privateId = undefined

\* The positions of the stored entries whose privateId is k.
Matching(k) == {i \in 1..Len(data) : data[i].privateId = k}

\* C26: an update or delete whose privateId matches no stored entry, and a
\* delete without an id, is answered 400 and leaves the store as it was; an
\* update that matches is answered 200 and replaces one entry in place,
\* with the number and the order of the entries kept.
C26_UnmatchedRequestsFail ==
    [][/\ \A body \in Bodies :
              (last'.op = "updateEntry" /\ updateEntry(body)) =>
                  IF Matching(body.privateId) = {}
                  THEN last'.status = 400 /\ data' = data
                  ELSE /\ last'.status = 200
                       /\ \E i \in Matching(body.privateId) :
                              /\ data' = [data EXCEPT ![i] = data'[i]]
                              /\ data'[i].privateId = body.privateId
                              /\ data'[i].publicId = body.publicId
                              /\ data'[i].address = body.address
                              /\ data'[i].region = body.region
                              /\ data'[i].appliances = body.appliances
       /\ \A id \in DeleteIds :
              (/\ last'.op = "deleteEntry"
               /\ id = undefined \/ Matching(id) = {}
               /\ deleteEntry(id)) =>
                  last'.status = 400 /\ data' = data]_vars

\* C26 witness: an update was answered 200 on a store of two entries.
C26_Witness ==
    /\ last.op = "updateEntry" /\ last.status = 200
    /\ Len(data) = 2
    /\ data[1].privateId = "k1" /\ data[1].publicId = "p3"
    /\ data[2].privateId = "k2"

\* The percentage of `source` in the mix of `region`: 0 for a region that
\* is not in the table and for a source the mix does not have.
ShareOf(region, source) ==
    LET found == {RegionPowerData[i].powerSources[j].pct :
                     <<i, j>> \in {<<a, b>> \in
                        (DOMAIN RegionPowerData) \X (1..8) :
                            /\ RegionPowerData[a].name = region
                            /\ b \in DOMAIN RegionPowerData[a].powerSources
                            /\ RegionPowerData[a].powerSources[b].name
                                   = source}}
    IN  IF found = {} THEN 0 ELSE CHOOSE p \in found : TRUE

\* C28: the sort score of a stored entry is solar + wind + hydro of its
\* region's mix for GREEN, the percentage of the named source (whatever its
\* letter case) for a source name, and locationPower for ANY (scores are
\* kept in hundredths); a region that is not in the table and a source the
\* mix does not have score 0, and totalPower is locationPower.
C28_SortScore ==
    last.op = "getEntries" =>
        \A i \in 1..Len(data) :
            LET psf == OrDefault(last.query.powerSource, "GREEN")
                sv == calculateSortValues(data[i], psf)
            IN  /\ sv.totalPower = getLocationPower(data[i].appliances)
                /\ ~sv.sortNaN
                /\ sv.sortValue =
                       CASE psf = "GREEN" ->
                                ShareOf(data[i].region, "solar")
                                + ShareOf(data[i].region, "wind")
                                + ShareOf(data[i].region, "hydro")
                         [] psf = "ANY" -> getLocationPower(data[i].appliances)
                         [] OTHER -> ShareOf(data[i].region, ToLowerCase(psf))

\* The page p of the query that was answered, requested on the same store.
PageOf(p) ==
    getEntries(data, [last.query EXCEPT !.page = NumStr(p)]).board.entries

\* The positions of the stored entries that pass the filters of the query
\* that was answered.
Passing ==
    {i \in 1..Len(data) :
        /\ OrDefault(last.query.region, "ALL") \in {"ALL", data[i].region}
        /\ \/ OrDefault(last.query.appType, "ANY") = "ANY"
           \/ HasTypeNamed(data[i], last.query.appType)}

\* C30: for the store and the filter and sort parameters of an answered
\* query, the pages 1..totalPages partition the filtered entries: a page
\* holds at most PAGE_SIZE entries, every page but the last exactly
\* PAGE_SIZE, every stored entry that passes the filters is on exactly one
\* page at one place, no other entry is on a page, and totalEntries is the
\* number of entries that pass.
C30_PagesPartitionFiltered ==
    (QueryReturned /\ last.query.page = Undef) =>
        \A pages \in {[p \in 1..last.board.totalPages |-> PageOf(p)]} :
            LET n == last.board.totalPages
                places == {<<p, j>> \in (1..n) \X (1..PAGE_SIZE) :
                              j <= Len(pages[p])}
            IN  /\ \A p \in 1..n : Len(pages[p]) <= PAGE_SIZE
                /\ \A p \in 1..(n - 1) : Len(pages[p]) = PAGE_SIZE
                /\ \A i \in Passing :
                       Cardinality({pl \in places :
                           pages[pl[1]][pl[2]].publicId
                               = data[i].publicId}) = 1
                /\ Cardinality(places) = Cardinality(Passing)
                /\ last.board.totalEntries = Cardinality(Passing)

\* C30 witness: an unfiltered query over 33 stored entries is answered
\* with three pages, the last of which holds one entry.
C30_Witness ==
    /\ QueryReturned /\ last.query.page = Undef
    /\ Len(data) = MaxPaged
    /\ last.board.totalPages = 3
    /\ Len(PageOf(2)) = PAGE_SIZE
    /\ Len(PageOf(3)) = 1

\* C27: deleting the appliance of a node of the edit page removes exactly
\* that appliance from the list of the selected location, keeps the others
\* in their order, and saves the resulting list to localStorage.
C27_DeleteRemovesThatAppliance ==
    [][\A k \in 1..MaxAppliances :
           deleteAppliance(k) =>
               LET appliance == editPage.nodes[k]
                   rest == SelectSeq(editPage.selectedLocation.appliances,
                                     LAMBDA app : app.ref # appliance.ref)
               IN  /\ editPage'.selectedLocation.appliances = rest
                   /\ \E i \in 1..Len(locations') :
                          /\ locations'[i].privateId
                                 = editPage.selectedLocation.privateId
                          /\ locations'[i].appliances
                                 = StringifyAppliances(rest)]_vars

\* The server holds an entry with privateId k.
Holds(store, k) == \E i \in 1..Len(store) : store[i].privateId = k

\* The stored locations with privateId k.
StoredAs(stored, k) == {i \in 1..Len(stored) : stored[i].privateId = k}

C29_LatestResponseShown ==
    (/\ leaderboardPage.open
     /\ leaderboardPage.requests = <<>>
     /\ ~leaderboardPage.failed) =>
        \A response \in {getEntries(data, leaderboardPage.latest)} :
            /\ leaderboardPage.currentPageEntries = response.board.entries
            /\ leaderboardPage.currentPage = response.board.currentPage
            /\ leaderboardPage.totalPages = response.board.totalPages

====
